---- MODULE Spec2Model ----
(***************************************************************************)
(* postbox: Envelope.Write and the writers it drives (Headers.Write,       *)
(* NewBoundary, Boundary.Mark/End, Part.Write).                            *)
(*                                                                         *)
(* The repository holds two revisions of the package:                      *)
(*   src/main.go           - no function returns an error, every result of *)
(*                           writer.Write is discarded;                    *)
(*   src/unnamed/part_000  - every function but NewBoundary returns the    *)
(*                           first error it meets.                         *)
(* The variable rev says which revision runs.  One step of the model is    *)
(* one call on the destination stream (Write or Close) or one read of a    *)
(* part's source, together with the control flow up to the next call.      *)
(*                                                                         *)
(* A byte string is a sequence of atoms.  An atom is a one-character       *)
(* string or an opaque token (a header name, an address, a boundary        *)
(* identifier) standing for the characters of that token.                  *)
(***************************************************************************)
EXTENDS Integers, Sequences, FiniteSets, TLC

VARIABLES
    rev,        \* "main" (src/main.go) or "part" (src/unnamed/part_000)
    e,          \* the Envelope
    pc,         \* the statement Envelope.Write (or its callee) is at
    cur,        \* the boundary the statement works on
    idx,        \* index of the part of the range loop, 1-based
    hw,         \* Headers.Write in progress: fields left, and the piece next
    ids,        \* Identifier of the boundaries made so far
    enc,        \* the base64 encoder of the part being written
    rd,         \* bytes consumed from the source of the part being written
    log,        \* calls made so far on the stream and on the part sources
    failures,   \* I/O failures injected so far
    root,       \* the exported function that was called
    ret,        \* what the call returned
    drawn,      \* reads of crypto/rand made so far, by all calls
    other,      \* a second call of Envelope.Write, while it does not run
    reader      \* the goroutine that reads the other end of the stream

vars == <<rev, e, pc, cur, idx, hw, ids, enc, rd, log, failures, root, ret, drawn, other,
          reader>>

-----------------------------------------------------------------------------
(* Bounds of the model *)

MaxParts == 2
MaxRcpt == 2
MaxBody == 3
MaxFailures == 1
MaxCalls == 4
MaxSwitches == 2

-----------------------------------------------------------------------------
(* Constants of the package *)

CR == "\r"
LF == "\n"
CRLF == <<CR, LF>>

QuotedPrintable == "quoted-printable"
Base64 == "base64"
Unencoded == "8bit"

\* The bytes of a token: the empty string has none.
Bytes(s) == IF s = "" THEN <<>> ELSE <<s>>

RECURSIVE JoinReversed(_, _)
\* Join with the values in the opposite order
JoinReversed(values, sep) ==
    IF Len(values) = 0 THEN <<>>
    ELSE IF Len(values) = 1 THEN Bytes(values[1])
    ELSE JoinReversed(Tail(values), sep) \o sep \o Bytes(values[1])

RECURSIVE Join(_, _)
\* strings.Join(values, sep), as bytes
Join(values, sep) ==
    IF Len(values) = 0 THEN <<>>
    ELSE IF Len(values) = 1 THEN Bytes(values[1])
    ELSE Bytes(values[1]) \o sep \o Join(Tail(values), sep)

RECURSIVE Concat(_)
\* the concatenation of a sequence of byte strings
Concat(ss) == IF ss = <<>> THEN <<>> ELSE Head(ss) \o Concat(Tail(ss))

-----------------------------------------------------------------------------
(* time.Time *)

ZeroTime == "0001-01-01T00:00:00Z"
SomeTime == "2009-11-10T23:00:00+01:00"
Now == "2026-11-05T12:00:00+00:00"

IsZero(t) == t = ZeroTime

\* t.Format(time.RFC1123Z)
RFC1123Z(t) ==
    CASE t = ZeroTime -> "Mon, 01 Jan 0001 00:00:00 +0000"
      [] t = SomeTime -> "Tue, 10 Nov 2009 23:00:00 +0100"
      [] t = Now -> "Thu, 05 Nov 2026 12:00:00 +0000"

-----------------------------------------------------------------------------
(* Bytes of part bodies.  "xD3", "xDD" and "xE9" each stand for the one    *)
(* byte of that value.                                                     *)

ByteVal(c) ==
    CASE c = LF -> 10
      [] c = CR -> 13
      [] c = " " -> 32
      [] c = "3" -> 51
      [] c = "=" -> 61
      [] c = "D" -> 68
      [] c = "h" -> 104
      [] c = "xD3" -> 211
      [] c = "xDD" -> 221
      [] c = "xE9" -> 233

AllBytes == {LF, CR, " ", "3", "=", "D", "h", "xD3", "xDD", "xE9"}

ByteChr(n) == CHOOSE c \in AllBytes : ByteVal(c) = n

-----------------------------------------------------------------------------
(* mime/quotedprintable: the Reader that quotedprintable.NewReader makes   *)
(* decodes quoted-printable text.                                          *)

\* fromHex: the value of a hex digit, -1 for any other byte
FromHex(c) ==
    CASE c = "3" -> 3
      [] c = "D" -> 13
      [] OTHER -> -1

\* isQPDiscardWhitespace
IsQPDiscardWhitespace(c) == c \in {LF, CR, " "}

RECURSIVE TrimRight(_)
\* bytes.TrimRightFunc(line, isQPDiscardWhitespace)
TrimRight(s) ==
    IF s # <<>> /\ IsQPDiscardWhitespace(s[Len(s)])
    THEN TrimRight(SubSeq(s, 1, Len(s) - 1))
    ELSE s

HasPrefix(s, p) == Len(s) >= Len(p) /\ SubSeq(s, 1, Len(p)) = p
HasSuffix(s, p) == Len(s) >= Len(p) /\ SubSeq(s, Len(s) - Len(p) + 1, Len(s)) = p

\* The line of Reader.Read after ReadSlice: trailing white space dropped, a
\* soft line break removed, a hard line break put back.  eof: the source
\* ended (io.EOF) right after this line.  bad: "invalid bytes after =".
QPLine(whole, eof) ==
    LET trimmed == TrimRight(whole)
        stripped == SubSeq(whole, Len(trimmed) + 1, Len(whole))
        cut == SubSeq(trimmed, 1, Len(trimmed) - 1)
    IN  IF HasSuffix(trimmed, <<"=">>)
        THEN [line |-> cut,
              bad |-> /\ ~HasPrefix(stripped, <<LF>>)
                      /\ ~HasPrefix(stripped, CRLF)
                      /\ ~(Len(stripped) = 0 /\ Len(cut) > 0 /\ eof)]
        ELSE IF HasSuffix(whole, <<LF>>)
        THEN [line |-> trimmed \o (IF HasSuffix(whole, CRLF) THEN CRLF ELSE <<LF>>),
              bad |-> FALSE]
        ELSE [line |-> trimmed, bad |-> FALSE]

RECURSIVE QPBytes(_)
\* The switch of Reader.Read over the bytes of one line: the bytes it
\* delivers, and whether it stopped on an error.
QPBytes(line) ==
    IF line = <<>> THEN [out |-> <<>>, err |-> FALSE]
    ELSE LET b == line[1] IN
         IF b = "="
         THEN IF Len(line) >= 3 /\ FromHex(line[2]) >= 0 /\ FromHex(line[3]) >= 0
              THEN LET r == QPBytes(SubSeq(line, 4, Len(line)))
                   IN  [out |-> <<ByteChr(16 * FromHex(line[2]) + FromHex(line[3]))>> \o r.out,
                        err |-> r.err]
              ELSE IF Len(line) >= 2 /\ line[2] # CR /\ line[2] # LF
              THEN LET r == QPBytes(Tail(line))
                   IN  [out |-> <<"=">> \o r.out, err |-> r.err]
              ELSE [out |-> <<>>, err |-> TRUE]
         ELSE IF b \in {CR, LF} \/ ByteVal(b) >= 128
                 \/ ~(ByteVal(b) < 32 \/ ByteVal(b) > 126)
         THEN LET r == QPBytes(Tail(line))
              IN  [out |-> <<b>> \o r.out, err |-> r.err]
         ELSE [out |-> <<>>, err |-> TRUE]

\* index of the first LF of s, 0 when it has none
FirstLF(s) ==
    IF \E i \in 1..Len(s) : s[i] = LF
    THEN CHOOSE i \in 1..Len(s) : s[i] = LF /\ \A j \in 1..(i - 1) : s[j] # LF
    ELSE 0

RECURSIVE QPRead(_, _)
\* Everything a quotedprintable.Reader over a source holding s delivers
\* until it returns an error or io.EOF.  srcErr: the source ends with a
\* read error instead of io.EOF.  err: the Reader ended with an error.
QPRead(s, srcErr) ==
    IF s = <<>> THEN [out |-> <<>>, err |-> srcErr]
    ELSE LET k == FirstLF(s)
             whole == IF k = 0 THEN s ELSE SubSeq(s, 1, k)
             rest == IF k = 0 THEN <<>> ELSE SubSeq(s, k + 1, Len(s))
             l == QPLine(whole, k = 0 /\ ~srcErr)
             d == QPBytes(l.line)
         IN  IF d.err \/ l.bad THEN [out |-> d.out, err |-> TRUE]
             ELSE IF k = 0 THEN [out |-> d.out, err |-> srcErr]
             ELSE LET r == QPRead(rest, srcErr)
                  IN  [out |-> d.out \o r.out, err |-> r.err]

-----------------------------------------------------------------------------
(* encoding/base64, base64.StdEncoding *)

B64Chars ==
    << "A", "B", "C", "D", "E", "F", "G", "H", "I", "J", "K", "L", "M",
       "N", "O", "P", "Q", "R", "S", "T", "U", "V", "W", "X", "Y", "Z",
       "a", "b", "c", "d", "e", "f", "g", "h", "i", "j", "k", "l", "m",
       "n", "o", "p", "q", "r", "s", "t", "u", "v", "w", "x", "y", "z",
       "0", "1", "2", "3", "4", "5", "6", "7", "8", "9", "+", "/" >>

B64(n) == B64Chars[n + 1]

RECURSIVE B64Encode(_)
\* Encoding.Encode: three bytes to four characters, the last one or two
\* bytes padded with "="
B64Encode(s) ==
    IF Len(s) = 0 THEN <<>>
    ELSE IF Len(s) = 1
    THEN LET v == ByteVal(s[1]) * 65536
         IN  <<B64(v \div 262144), B64((v \div 4096) % 64), "=", "=">>
    ELSE IF Len(s) = 2
    THEN LET v == ByteVal(s[1]) * 65536 + ByteVal(s[2]) * 256
         IN  <<B64(v \div 262144), B64((v \div 4096) % 64), B64((v \div 64) % 64), "=">>
    ELSE LET v == ByteVal(s[1]) * 65536 + ByteVal(s[2]) * 256 + ByteVal(s[3])
         IN  <<B64(v \div 262144), B64((v \div 4096) % 64), B64((v \div 64) % 64), B64(v % 64)>>
             \o B64Encode(SubSeq(s, 4, Len(s)))

\* The writes encoder.Write(p) issues on the underlying writer when none of
\* them fails, with nbuf bytes buf held over from earlier calls: the
\* leading fringe, then the whole groups of three.
EncoderWrites(buf, p) ==
    LET take == IF Len(buf) > 0 THEN (IF Len(p) < 3 - Len(buf) THEN Len(p) ELSE 3 - Len(buf)) ELSE 0
        lead == buf \o SubSeq(p, 1, take)
        p2 == SubSeq(p, take + 1, Len(p))
        nn == Len(p2) - (Len(p2) % 3)
    IN  IF Len(buf) > 0 /\ Len(lead) < 3 THEN <<>>
        ELSE (IF Len(buf) > 0 THEN <<B64Encode(lead)>> ELSE <<>>)
             \o (IF nn > 0 THEN <<B64Encode(SubSeq(p2, 1, nn))>> ELSE <<>>)

\* EncoderCarry with nothing held over
EncoderCarryNone(buf, p) == <<>>

\* the bytes encoder.Write(p) leaves in e.buf when no write fails
EncoderCarry(buf, p) ==
    LET all == buf \o p
    IN  IF Len(buf) > 0 /\ Len(all) < 3 THEN all
        ELSE SubSeq(all, Len(all) - (Len(all) % 3) + 1, Len(all))

-----------------------------------------------------------------------------
(* Headers: map[string][]string.  A map value is written as the sequence   *)
(* of its entries in insertion order.                                      *)

Rotate(h, k) == SubSeq(h, k + 1, Len(h)) \o SubSeq(h, 1, k)

\* for property, values := range h
\* Go leaves the order of a range over a map unspecified.  The runtime
\* starts a map of up to eight entries at a random slot and wraps around,
\* which visits the entries of a map literal in a rotation of their
\* insertion order.
MapRange(h) == {Rotate(h, k) : k \in 0..(IF Len(h) = 0 THEN 0 ELSE Len(h) - 1)}

\* EnvelopeHeaders with a Sender field after From
EnvelopeHeadersWithSender(env) ==
    << [name |-> "Date", values |-> <<RFC1123Z(env.Date)>>],
       [name |-> "From", values |-> <<env.From>>],
       [name |-> "Sender", values |-> <<env.Sender>>],
       [name |-> "To", values |-> env.To],
       [name |-> "Cc", values |-> env.Cc],
       [name |-> "Reply-To", values |-> <<env.ReplyTo>>],
       [name |-> "Subject", values |-> <<env.Subject>>],
       [name |-> "Mime-Version", values |-> <<"1.0">>] >>

\* the headers map of Envelope.Write
EnvelopeHeaders(env) ==
    << [name |-> "Date", values |-> <<RFC1123Z(env.Date)>>],
       [name |-> "From", values |-> <<env.From>>],
       [name |-> "To", values |-> env.To],
       [name |-> "Cc", values |-> env.Cc],
       [name |-> "Reply-To", values |-> <<env.ReplyTo>>],
       [name |-> "Subject", values |-> <<env.Subject>>],
       [name |-> "Mime-Version", values |-> <<"1.0">>] >>

\* PartHeaders with "8bit" for every encoding but the two it knows
PartHeadersKnown(p, charset) ==
    << [name |-> "Content-Type", values |-> <<p.ContentType, "charset=" \o charset>>],
       [name |-> "Content-Transfer-Encoding",
        values |-> <<IF p.Encoding \in {QuotedPrintable, Base64} THEN p.Encoding ELSE Unencoded>>] >>

\* the headers map of Part.Write
PartHeaders(p, charset) ==
    << [name |-> "Content-Type", values |-> <<p.ContentType, "charset=" \o charset>>],
       [name |-> "Content-Transfer-Encoding", values |-> <<p.Encoding>>] >>

\* the headers map of NewBoundary
BoundaryHeaders(mime, identifier) ==
    << [name |-> "Content-Type", values |-> <<mime, "boundary=" \o identifier>>] >>

Mime(b) ==
    CASE b = "mixed" -> "multipart/mixed"
      [] b = "related" -> "multipart/related"
      [] b = "alternative" -> "multipart/alternative"

\* the bytes Boundary.Mark writes
MarkBytes(identifier) == <<"-", "-">> \o Bytes(identifier) \o CRLF

\* the bytes Boundary.End writes
EndBytes(identifier) == <<"-", "-">> \o Bytes(identifier) \o <<"-", "-">> \o CRLF \o CRLF

\* what crypto/rand yields, in hex, read after read
Tokens == <<"3f9a", "c07e", "5b21", "a4d0", "17be", "e962">>

\* RandomBoundary: 30 bytes read from crypto/rand, in hex.  crypto/rand is
\* shared by every call; each read yields a token no other read yields.
RandomBoundary == Tokens[drawn + 1]

Level(b) ==
    CASE b = "mixed" -> 1
      [] b = "related" -> 2
      [] b = "alternative" -> 3

-----------------------------------------------------------------------------
(* The inputs *)

Addresses == <<"bil@example.com", "dan@example.com", "eve@example.com", "fay@example.com">>

\* the recipient lists: the first n addresses, n up to MaxRcpt
RcptLists == {SubSeq(Addresses, 1, n) : n \in 0..MaxRcpt}

Encodings == {QuotedPrintable, Base64, Unencoded}

NewPart(ct, enc0, body) == [ContentType |-> ct, Encoding |-> enc0, Reader |-> body]

\* the parts of the envelopes, with a short source each
Parts ==
    << NewPart("text/plain", Base64, <<"h">>),
       NewPart("text/html", QuotedPrintable, <<"h">>),
       NewPart("text/plain", Unencoded, <<"h", LF>>) >>

\* the part lists of the envelopes: none, each part alone, and the first n
\* parts, n up to MaxParts
PartLists ==
    {SubSeq(Parts, k, k) : k \in 1..(IF MaxParts = 0 THEN 0 ELSE Len(Parts))}
    \cup {SubSeq(Parts, 1, n) : n \in 0..(IF MaxParts > Len(Parts) THEN Len(Parts) ELSE MaxParts)}

RECURSIVE SeqsUpTo(_, _)
\* the sequences over S of length at most n
SeqsUpTo(S, n) ==
    IF n = 0 THEN {<<>>}
    ELSE LET shorter == SeqsUpTo(S, n - 1)
         IN  shorter \cup {Append(q, x) : q \in shorter, x \in S}

NewEnvelope(date, from, to, cc, parts) ==
    [Date |-> date, From |-> from, Sender |-> "john@example.com",
     ReplyTo |-> "reply@example.com", To |-> to, Cc |-> cc,
     Subject |-> "Check this out!", Parts |-> parts, Embedded |-> <<>>,
     Attachments |-> <<>>, Charset |-> "utf-8"]

\* Envelopes that vary one of the recipients, the copies, the date, the
\* sender and the parts.
Envelopes ==
    {NewEnvelope(SomeTime, "john@example.com", to, <<>>, <<>>) : to \in RcptLists}
    \cup {NewEnvelope(SomeTime, "john@example.com", <<"bil@example.com">>, cc, <<>>) :
            cc \in RcptLists}
    \cup {NewEnvelope(ZeroTime, "", <<"bil@example.com">>, <<>>, <<>>)}
    \cup {NewEnvelope(SomeTime, "john@example.com", <<"bil@example.com">>, <<>>, ps) :
            ps \in PartLists}

NoHeaders == [q |-> <<>>, at |-> "range"]
NoEncoder == [buf |-> <<>>, err |-> FALSE]
NoIds == [mixed |-> "", related |-> "", alternative |-> ""]
NoCall == [pc |-> "none"]
NoReader == [got |-> 0, eof |-> FALSE, on |-> FALSE]

\* The sources of the parts that are written alone: every byte string of up
\* to MaxBody bytes, over bytes the encoding treats differently.
BodyBytes(en) ==
    IF en = QuotedPrintable THEN {"h", "=", "3", "D", " ", LF} ELSE {"h", "xE9", LF}

SoloParts ==
    UNION {{NewPart("text/plain", en, body) : body \in SeqsUpTo(BodyBytes(en), MaxBody)} :
            en \in Encodings \cup {"UTF-8"}}

\* mail.Write(writer) is called
Init ==
    /\ rev \in {"main", "part"}
    /\ e \in Envelopes
    /\ root = "Envelope.Write"
    /\ pc = "begin"
    /\ cur = "mixed"
    /\ idx = 1
    /\ hw = NoHeaders
    /\ ids = NoIds
    /\ enc = NoEncoder
    /\ rd = 0
    /\ log = <<>>
    /\ failures = 0
    /\ ret = "running"
    /\ drawn = 0
    /\ other = NoCall
    /\ reader = NoReader

\* part.Write(writer, charset) is called on its own; e holds the part as its
\* only part, and the charset.
InitPart ==
    /\ rev \in {"main", "part"}
    /\ \E p \in SoloParts :
        /\ e = [NewEnvelope(ZeroTime, "", <<>>, <<>>, <<p>>) EXCEPT
                    !.Sender = "", !.ReplyTo = "", !.Subject = ""]
        /\ hw = [q |-> PartHeaders(p, "utf-8"), at |-> "range"]
    /\ root = "Part.Write"
    /\ pc = "phdr"
    /\ cur = ""
    /\ idx = 1
    /\ ids = NoIds
    /\ enc = NoEncoder
    /\ rd = 0
    /\ log = <<>>
    /\ failures = 0
    /\ ret = "running"
    /\ drawn = 0
    /\ other = NoCall
    /\ reader = NoReader

-----------------------------------------------------------------------------
(* The calls and what they return *)

\* the revision whose functions return the errors they meet
Checked == rev = "part"

\* The outcomes of an I/O call: TRUE, it succeeds; FALSE, it fails.
Outcomes == IF failures < MaxFailures THEN {TRUE, FALSE} ELSE {TRUE}

\* A call: op, "write" or "close" on the stream, "read" of the source of a
\* part, "rand" of crypto/rand; fn, the function that makes it, and at, the
\* place in fn; by, the caller of a Headers.Write; b, the boundary and part,
\* the index of the part at work (or "" and 0); data, the bytes written or
\* read; ok, whether the call succeeds.
Event(op, fn, by, at, b, part, data, ok) ==
    [op |-> op, fn |-> fn, by |-> by, at |-> at, b |-> b, part |-> part,
     data |-> data, ok |-> ok]

Injected(evs) == Cardinality({k \in 1..Len(evs) : ~evs[k].ok})

\* the calls evs are made
Calls(evs) ==
    /\ log' = log \o evs
    /\ failures' = failures + Injected(evs)

Goto(p, b, i) ==
    /\ pc' = p
    /\ cur' = b
    /\ idx' = i
    /\ ret' = ret

\* the function called returns: err says whether with an error
Return(err) ==
    /\ pc' = "done"
    /\ ret' = IF Checked THEN (IF err THEN "err" ELSE "nil") ELSE "none"
    /\ UNCHANGED <<cur, idx>>

\* Loop that goes to the last part at once
LoopLast(i) ==
    IF i <= Len(e.Parts) THEN Goto("mark", "alternative", Len(e.Parts))
    ELSE Goto("end", "alternative", i)

\* for _, part := range e.Parts, at part i
Loop(i) ==
    IF i <= Len(e.Parts) THEN Goto("mark", "alternative", i)
    ELSE Goto("end", "alternative", i)

\* part.Write returns
PartReturns(err) ==
    IF root = "Part.Write" \/ (Checked /\ err) THEN Return(err)
    ELSE Loop(idx + 1)

\* headers.Write returns
HeadersReturn(err) ==
    CASE pc = "headers" -> IF Checked /\ err THEN Return(TRUE) ELSE Goto("new", "mixed", idx)
      [] pc = "nbhdr" -> Goto("nbcrlf", cur, idx)
      [] pc = "phdr" -> IF Checked /\ err THEN PartReturns(TRUE) ELSE Goto("pcrlf", cur, idx)

-----------------------------------------------------------------------------
(* Envelope.Write *)

\* Begin with the Date set to the current time whatever it holds
BeginAlwaysNow ==
    /\ pc = "begin"
    /\ e' = [e EXCEPT !.Date = Now]
    /\ hw' = [q |-> EnvelopeHeaders(e'), at |-> "range"]
    /\ pc' = "headers"
    /\ UNCHANGED <<rev, cur, idx, ids, enc, rd, log, failures, root, ret, drawn, other, reader>>

\* Envelope.Write up to its call of headers.Write
Begin ==
    /\ pc = "begin"
    /\ e' = [e EXCEPT !.Date = IF IsZero(@) THEN Now ELSE @]
    /\ hw' = [q |-> EnvelopeHeaders(e'), at |-> "range"]
    /\ pc' = "headers"
    /\ UNCHANGED <<rev, cur, idx, ids, enc, rd, log, failures, root, ret, drawn, other, reader>>

\* HeaderPiece with ": " written for a field without values too
HeaderPieceSpaced(f, at) ==
    CASE at = "property" -> Bytes(f.name)
      [] at = "colon" -> IF Len(f.values) = 0 THEN <<":", " ">> \o CRLF ELSE <<":", " ">>
      [] at = "values" -> Join(f.values, <<";", " ">>)
      [] at = "crlf" -> CRLF

\* The piece of the line of field f that Headers.Write writes at `at`.
HeaderPiece(f, at) ==
    CASE at = "property" -> Bytes(f.name)
      [] at = "colon" -> IF Len(f.values) = 0 THEN <<":">> \o CRLF ELSE <<":", " ">>
      [] at = "values" -> Join(f.values, <<";", " ">>)
      [] at = "crlf" -> CRLF

\* Where Headers.Write is after the piece at `at` of the first field of q:
\* io.Copy of a strings.Reader that holds nothing writes nothing.
HeaderNext(q, at) ==
    LET f == Head(q) IN
    CASE at = "property" -> [q |-> q, at |-> "colon"]
      [] at = "colon" ->
            IF Len(f.values) = 0 THEN [q |-> Tail(q), at |-> "property"]
            ELSE IF Join(f.values, <<";", " ">>) = <<>> THEN [q |-> q, at |-> "crlf"]
            ELSE [q |-> q, at |-> "values"]
      [] at = "values" -> [q |-> q, at |-> "crlf"]
      [] at = "crlf" -> [q |-> Tail(q), at |-> "property"]

\* the caller of the Headers.Write in progress
HeadersCaller ==
    CASE pc = "headers" -> "Envelope.Write"
      [] pc = "nbhdr" -> "NewBoundary"
      [] pc = "phdr" -> "Part.Write"

\* Headers.Write: one call of writer.Write (or the io.Copy of the values)
HeadersWrite ==
    /\ pc \in {"headers", "nbhdr", "phdr"}
    /\ hw.q # <<>>
    /\ \E order \in (IF hw.at = "range" THEN MapRange(hw.q) ELSE {hw.q}), ok \in Outcomes :
        LET at == IF hw.at = "range" THEN "property" ELSE hw.at
            next == HeaderNext(order, at)
        IN  /\ Calls(<<Event("write", "Headers.Write", HeadersCaller, at,
                             IF pc = "nbhdr" THEN cur ELSE "",
                             IF pc = "phdr" THEN idx ELSE 0,
                             HeaderPiece(Head(order), at), ok)>>)
            /\ IF ~ok /\ Checked THEN hw' = NoHeaders /\ HeadersReturn(TRUE)
               ELSE IF next.q = <<>> THEN hw' = NoHeaders /\ HeadersReturn(FALSE)
               ELSE hw' = next /\ Goto(pc, cur, idx)
    /\ UNCHANGED <<rev, e, ids, enc, rd, root, drawn, other, reader>>

\* NewBoundary up to its call of headers.Write; RandomBoundary panics when
\* crypto/rand fails.
NewBoundary ==
    /\ pc = "new"
    /\ \E ok \in Outcomes :
        LET identifier == RandomBoundary IN
        /\ Calls(<<Event("rand", "RandomBoundary", "NewBoundary", "", cur, 0, <<>>, ok)>>)
        /\ IF ok
           THEN /\ ids' = [ids EXCEPT ![cur] = identifier]
                /\ drawn' = drawn + 1
                /\ hw' = [q |-> BoundaryHeaders(Mime(cur), identifier), at |-> "range"]
                /\ Goto("nbhdr", cur, idx)
           ELSE /\ pc' = "done"
                /\ ret' = "panic"
                /\ UNCHANGED <<ids, hw, cur, idx, drawn>>
    /\ UNCHANGED <<rev, e, enc, rd, root, other, reader>>

\* NewBoundary: writer.Write([]byte(CRLF)), its result dropped
NewBoundaryCRLF ==
    /\ pc = "nbcrlf"
    /\ \E ok \in Outcomes :
        Calls(<<Event("write", "NewBoundary", "", "crlf", cur, 0, CRLF, ok)>>)
    /\ IF cur = "alternative" THEN Loop(1) ELSE Goto("mark", cur, idx)
    /\ UNCHANGED <<rev, e, hw, ids, enc, rd, root, drawn, other, reader>>

\* Boundary.Mark, and what Envelope.Write does with its result
Mark ==
    /\ pc = "mark"
    /\ \E ok \in Outcomes :
        /\ Calls(<<Event("write", "Boundary.Mark", "", "", cur, 0, MarkBytes(ids[cur]), ok)>>)
        /\ IF ~ok /\ Checked THEN Return(TRUE) /\ UNCHANGED <<hw, rd, enc>>
           ELSE IF cur = "mixed" THEN Goto("new", "related", idx) /\ UNCHANGED <<hw, rd, enc>>
           ELSE IF cur = "related" THEN Goto("new", "alternative", idx) /\ UNCHANGED <<hw, rd, enc>>
           ELSE /\ Goto("phdr", cur, idx)
                /\ hw' = [q |-> PartHeaders(e.Parts[idx], e.Charset), at |-> "range"]
                /\ rd' = 0
                /\ enc' = NoEncoder
    /\ UNCHANGED <<rev, e, ids, root, drawn, other, reader>>

\* End with the boundaries ended in the order alternative, mixed, related
EndOutOfOrder ==
    /\ pc = "end"
    /\ \E ok \in Outcomes :
        /\ Calls(<<Event("write", "Boundary.End", "", "", cur, 0, EndBytes(ids[cur]), ok)>>)
        /\ IF ~ok /\ Checked THEN Return(TRUE)
           ELSE IF cur = "alternative" THEN Goto("end", "mixed", idx)
           ELSE IF cur = "mixed" THEN Goto("end", "related", idx)
           ELSE Goto("close", cur, idx)
    /\ UNCHANGED <<rev, e, hw, ids, enc, rd, root, drawn, other, reader>>

\* Boundary.End, and what Envelope.Write does with its result
End ==
    /\ pc = "end"
    /\ \E ok \in Outcomes :
        /\ Calls(<<Event("write", "Boundary.End", "", "", cur, 0, EndBytes(ids[cur]), ok)>>)
        /\ IF ~ok /\ Checked THEN Return(TRUE)
           ELSE IF cur = "alternative" THEN Goto("end", "related", idx)
           ELSE IF cur = "related" THEN Goto("end", "mixed", idx)
           ELSE Goto("close", cur, idx)
    /\ UNCHANGED <<rev, e, hw, ids, enc, rd, root, drawn, other, reader>>

\* writer.Close()
Close ==
    /\ pc = "close"
    /\ \E ok \in Outcomes :
        /\ Calls(<<Event("close", "Envelope.Write", "", "", "", 0, <<>>, ok)>>)
        /\ Return(~ok)
    /\ UNCHANGED <<rev, e, hw, ids, enc, rd, root, drawn, other, reader>>

-----------------------------------------------------------------------------
(* Part.Write *)

ThePart == e.Parts[idx]

\* writer.Write([]byte(CRLF)) after the headers
PartCRLF ==
    /\ pc = "pcrlf"
    /\ \E ok \in Outcomes :
        /\ Calls(<<Event("write", "Part.Write", "", "crlf", "", idx, CRLF, ok)>>)
        /\ IF ~ok /\ Checked THEN PartReturns(TRUE) ELSE Goto("pbody", cur, idx)
    /\ UNCHANGED <<rev, e, hw, ids, enc, rd, root, drawn, other, reader>>

\* case QuotedPrintable: io.Copy(writer, quotedprintable.NewReader(p.Reader)).
\* The source delivers its first k bytes and then io.EOF or an error; the
\* quotedprintable Reader hands on what it decodes of them in one Read, and
\* io.Copy writes that, if it is not empty, in one Write.
PartBodyQP ==
    /\ pc = "pbody"
    /\ ThePart.Encoding = QuotedPrintable
    /\ \E rok \in Outcomes, k \in 0..Len(ThePart.Reader), wok \in BOOLEAN :
        LET got == SubSeq(ThePart.Reader, 1, k)
            r == QPRead(got, ~rok)
            evs == <<Event("read", "Part.Write", "", "copy", "", idx, got, rok)>>
                   \o (IF r.out # <<>>
                       THEN <<Event("write", "Part.Write", "", "copy", "", idx, r.out, wok)>>
                       ELSE <<>>)
        IN  /\ rok => k = Len(ThePart.Reader)
            /\ r.out = <<>> => wok
            /\ failures + Injected(evs) <= MaxFailures
            /\ Calls(evs)
            /\ rd' = k
            /\ IF Checked /\ (r.err \/ ~wok) THEN PartReturns(TRUE)
               ELSE Goto("ptrail", cur, idx)
    /\ UNCHANGED <<rev, e, hw, ids, enc, root, drawn, other, reader>>

\* The writes ws, of which the j-th fails (none when j = 0) and ends them.
WritesUntil(ws, j) ==
    [k \in 1..(IF j = 0 THEN Len(ws) ELSE j) |->
        Event("write", "Part.Write", "", "copy", "", idx, ws[k], k # j)]

\* case Base64 and default: one round of io.Copy, a Read of the source that
\* delivers n bytes and the Write of them, to the base64 encoder or to the
\* writer.  io.Copy ends at the first Write that fails.
PartBodyCopy ==
    /\ pc = "pbody"
    /\ ThePart.Encoding # QuotedPrintable
    /\ \E n \in 1..(Len(ThePart.Reader) - rd) :
        LET chunk == SubSeq(ThePart.Reader, rd + 1, rd + n)
            b64 == ThePart.Encoding = Base64
            ws == IF b64 THEN EncoderWrites(enc.buf, chunk) ELSE <<chunk>>
        IN  \E j \in 0..(IF failures < MaxFailures THEN Len(ws) ELSE 0) :
                /\ Calls(<<Event("read", "Part.Write", "", "copy", "", idx, chunk, TRUE)>>
                         \o WritesUntil(ws, j))
                /\ rd' = rd + n
                /\ enc' = IF ~b64 THEN enc
                          ELSE IF j > 0 THEN [buf |-> enc.buf, err |-> TRUE]
                          ELSE [buf |-> EncoderCarry(enc.buf, chunk), err |-> FALSE]
                /\ IF j = 0 THEN Goto("pbody", cur, idx)
                   ELSE IF Checked THEN PartReturns(TRUE)
                   ELSE Goto(IF b64 THEN "pclose" ELSE "ptrail", cur, idx)
    /\ UNCHANGED <<rev, e, hw, ids, root, drawn, other, reader>>

\* case Base64 and default: the Read that ends io.Copy, with io.EOF once
\* the source is used up, or with an error.
PartBodyEnd ==
    /\ pc = "pbody"
    /\ ThePart.Encoding # QuotedPrintable
    /\ \E rok \in Outcomes :
        /\ rok => rd = Len(ThePart.Reader)
        /\ Calls(<<Event("read", "Part.Write", "", "copy", "", idx, <<>>, rok)>>)
        /\ IF ~rok /\ Checked THEN PartReturns(TRUE)
           ELSE Goto(IF ThePart.Encoding = Base64 THEN "pclose" ELSE "ptrail", cur, idx)
    /\ UNCHANGED <<rev, e, hw, ids, enc, rd, root, drawn, other, reader>>

\* encoder.Close(): the bytes held over are written, padded, unless a write
\* of the encoder failed before.
PartClose ==
    /\ pc = "pclose"
    /\ \E ok \in Outcomes :
        LET flush == ~enc.err /\ enc.buf # <<>> IN
        /\ ~flush => ok
        /\ Calls(IF flush
                 THEN <<Event("write", "Part.Write", "", "close", "", idx, B64Encode(enc.buf), ok)>>
                 ELSE <<>>)
        /\ enc' = [buf |-> IF flush THEN <<>> ELSE enc.buf, err |-> enc.err \/ ~ok]
        /\ IF Checked /\ (enc.err \/ ~ok) THEN PartReturns(TRUE)
           ELSE Goto("ptrail", cur, idx)
    /\ UNCHANGED <<rev, e, hw, ids, rd, root, drawn, other, reader>>

\* PartTrail with LF alone written after the body
PartTrailLF ==
    /\ pc = "ptrail"
    /\ \E ok \in Outcomes :
        /\ Calls(<<Event("write", "Part.Write", "", "trail", "", idx, <<LF>>, ok)>>)
        /\ PartReturns(~ok)
    /\ UNCHANGED <<rev, e, hw, ids, enc, rd, root, drawn, other, reader>>

\* writer.Write([]byte(CRLF)) after the body
PartTrail ==
    /\ pc = "ptrail"
    /\ \E ok \in Outcomes :
        /\ Calls(<<Event("write", "Part.Write", "", "trail", "", idx, CRLF, ok)>>)
        /\ PartReturns(~ok)
    /\ UNCHANGED <<rev, e, hw, ids, enc, rd, root, drawn, other, reader>>

-----------------------------------------------------------------------------

Next ==
    \/ Begin
    \/ HeadersWrite
    \/ NewBoundary
    \/ NewBoundaryCRLF
    \/ Mark
    \/ End
    \/ Close
    \/ PartCRLF
    \/ PartBodyQP
    \/ PartBodyCopy
    \/ PartBodyEnd
    \/ PartClose
    \/ PartTrail

Spec == Init /\ [][Next]_vars

\* Part.Write called on its own
NextPart ==
    \/ HeadersWrite
    \/ PartCRLF
    \/ PartBodyQP
    \/ PartBodyCopy
    \/ PartBodyEnd
    \/ PartClose
    \/ PartTrail

SpecPart == InitPart /\ [][NextPart]_vars

-----------------------------------------------------------------------------
(* What the claims speak of *)

Boundaries == {"mixed", "related", "alternative"}

\* the order in which Envelope.Write opens the boundaries, reversed
CloseOrder == <<"alternative", "related", "mixed">>

IsEnd(ev) == ev.fn = "Boundary.End"
IsStream(ev) == ev.op \in {"write", "close"}
IsFailedIO(ev) == ev.op \in {"write", "read"} /\ ~ev.ok

\* the calls of Boundary.End so far
EndCalls == SelectSeq(log, IsEnd)

\* NewBoundary has returned the boundary b
Opened(b) == \E k \in 1..Len(log) : log[k].fn = "NewBoundary" /\ log[k].b = b

\* Envelope.Write has come to writer.Close()
ReachedClose == pc = "close" \/ \E k \in 1..Len(log) : log[k].op = "close"

-----------------------------------------------------------------------------
(* C1 *)

\* C1, as stated: when Envelope.Write has returned, every boundary that was
\* opened has had its close delimiter written exactly once.
C1_EveryOpenedClosed ==
    pc = "done" =>
        \A b \in Boundaries :
            Opened(b) =>
                Cardinality({k \in 1..Len(log) : IsEnd(log[k]) /\ log[k].b = b /\ log[k].ok}) = 1

\* C1, amended: the calls of Boundary.End are made in the order alternative,
\* related, mixed, each at most once and none before all three boundaries
\* are open; when Envelope.Write comes to writer.Close() all three have been
\* made, and when it returns nil every one of them has written its close
\* delimiter.  A run that ends early leaves the open boundaries unclosed.
C1_EndsInReverseOrder ==
    LET ends == EndCalls IN
    /\ Len(ends) <= Len(CloseOrder)
    /\ \A k \in 1..Len(ends) : ends[k].b = CloseOrder[k]
    /\ ends # <<>> => \A b \in Boundaries : Opened(b)
    /\ ReachedClose => Len(ends) = Len(CloseOrder)
    /\ ret = "nil" => ReachedClose /\ \A k \in 1..Len(ends) : ends[k].ok

\* C1, witness: a call for an envelope with a part has returned nil after
\* the three calls of End.
C1_Witness ==
    /\ pc = "done"
    /\ ret = "nil"
    /\ Len(e.Parts) = 1
    /\ Len(EndCalls) = 3

-----------------------------------------------------------------------------
(* C2 *)

CloseCalls == {k \in 1..Len(log) : log[k].op = "close"}

\* C2, as stated: when Envelope.Write has returned, writer.Close() has been
\* called exactly once, no call on the stream follows it, and Write returns
\* nil or an error as Close did when no step before it failed.
C2_ClosedOnceAndLast ==
    pc = "done" =>
        /\ Cardinality(CloseCalls) = 1
        /\ \A k \in CloseCalls :
            /\ \A j \in (k + 1)..Len(log) : ~IsStream(log[j])
            /\ (Checked /\ \A j \in 1..(k - 1) : log[j].ok) =>
                    ret = (IF log[k].ok THEN "nil" ELSE "err")

-----------------------------------------------------------------------------
(* C3 *)

IsTopProperty(ev) ==
    ev.fn = "Headers.Write" /\ ev.by = "Envelope.Write" /\ ev.at = "property"

\* the names of the top-level header fields in the order spec'd
TopOrder == <<"Date", "From", "To", "Cc", "Reply-To", "Subject", "Mime-Version">>

\* C3, as stated: Envelope.Write writes the names of the top-level header
\* fields in the order Date, From, To, Cc, Reply-To, Subject, Mime-Version.
C3_FixedHeaderOrder ==
    LET names == SelectSeq(log, IsTopProperty) IN
    /\ Len(names) <= Len(TopOrder)
    /\ \A k \in 1..Len(names) : names[k].data = <<TopOrder[k]>>

-----------------------------------------------------------------------------
(* C4 *)

\* C4, as stated, of the revision that returns errors: no Write is called
\* on the stream after a Write on it has failed.
C4_NoWriteAfterFailedWrite ==
    Checked =>
        \A i \in 1..Len(log) :
            (log[i].op = "write" /\ ~log[i].ok) =>
                \A j \in (i + 1)..Len(log) : log[j].op # "write"

-----------------------------------------------------------------------------
(* C5 *)

\* C5, as stated, of the revision that returns errors: when a Write on the
\* stream or a Read of a source has failed, Envelope.Write returns an error.
C5_FailuresSurfaced ==
    (Checked /\ pc = "done" /\ \E k \in 1..Len(log) : IsFailedIO(log[k])) => ret = "err"

-----------------------------------------------------------------------------
(* C6 *)

\* the bytes the stream has taken
Out == Concat([k \in 1..Len(log) |->
                IF log[k].op = "write" /\ log[k].ok THEN log[k].data ELSE <<>>])

\* where pat occurs in s
Occurrences(pat, s) ==
    {i \in 1..(Len(s) - Len(pat) + 1) : SubSeq(s, i, i + Len(pat) - 1) = pat}

\* the declaration of the boundary b: its Content-Type line
Declaration(b) ==
    <<"Content-Type", ":", " ", Mime(b), ";", " ", "boundary=" \o ids[b]>> \o CRLF

\* the call has ended well: nil is returned or, in the revision that
\* returns nothing, no call failed
Succeeded == pc = "done" /\ (ret = "nil" \/ (ret = "none" /\ failures = 0))

\* C6, as stated: the output of a successful Envelope.Write holds one
\* declaration of each boundary and as many mark delimiters of the
\* alternative boundary as the envelope has parts, all of them between the
\* declaration and the close delimiter of that boundary.
C6_OneDeclarationEachAndNMarks ==
    Succeeded =>
        LET out == Out
            decl == Occurrences(Declaration("alternative"), out)
            marks == Occurrences(MarkBytes(ids["alternative"]), out)
            ends == Occurrences(EndBytes(ids["alternative"]), out)
        IN  /\ \A b \in Boundaries : Cardinality(Occurrences(Declaration(b), out)) = 1
            /\ Cardinality(marks) = Len(e.Parts)
            /\ Cardinality(ends) = 1
            /\ \A m \in marks : \A d \in decl : \A c \in ends : d < m /\ m < c

-----------------------------------------------------------------------------
(* C7 *)

\* the body of part i that the stream has taken
Body(i) ==
    Concat([k \in 1..Len(log) |->
        IF /\ log[k].op = "write"
           /\ log[k].ok
           /\ log[k].fn = "Part.Write"
           /\ log[k].part = i
           /\ log[k].at \in {"copy", "close"}
        THEN log[k].data ELSE <<>>])

\* C7, as stated: when Part.Write has written a quoted-printable part well,
\* a quoted-printable decoder makes the bytes of the source of the body.
C7_QuotedPrintableRoundTrip ==
    (Succeeded /\ ThePart.Encoding = QuotedPrintable) =>
        LET decoded == QPRead(Body(idx), FALSE)
        IN  ~decoded.err /\ decoded.out = ThePart.Reader

-----------------------------------------------------------------------------
(* C8 *)

\* the name of the header field whose line the k-th call writes
FieldOf(k) ==
    LET j == CHOOSE j \in 1..k :
                /\ log[j].at = "property"
                /\ \A m \in (j + 1)..k : log[m].at # "property"
    IN  log[j].data

\* the place of the k-th call in the order of the pieces of a part
PieceRank(k) ==
    IF log[k].fn = "Headers.Write"
    THEN (IF FieldOf(k) = <<"Content-Type">> THEN 1 ELSE 2)
    ELSE CASE log[k].at = "crlf" -> 3
           [] log[k].at = "copy" -> 4
           [] log[k].at = "close" -> 5
           [] log[k].at = "trail" -> 6

\* C8, as stated: Part.Write writes the Content-Type line, then the
\* Content-Transfer-Encoding line, then CRLF, the body and CRLF.
C8_PartPiecesInOrder ==
    \A i, j \in 1..Len(log) : i < j => PieceRank(i) <= PieceRank(j)

-----------------------------------------------------------------------------
(* C9 and C10: the lines of Headers.Write *)

IsProperty(ev) == ev.fn = "Headers.Write" /\ ev.at = "property"

\* the calls that write a name
PropertyCalls == {k \in 1..Len(log) : IsProperty(log[k])}

\* the map of the Headers.Write that made the call ev
HeadersOf(ev) ==
    CASE ev.by = "Envelope.Write" -> EnvelopeHeaders(e)
      [] ev.by = "NewBoundary" -> BoundaryHeaders(Mime(ev.b), ids[ev.b])
      [] ev.by = "Part.Write" -> PartHeaders(e.Parts[ev.part], e.Charset)

\* the field whose name the k-th call writes
FieldAt(k) ==
    LET h == HeadersOf(log[k])
    IN  h[CHOOSE i \in 1..Len(h) : Bytes(h[i].name) = log[k].data]

\* the last call of the line that the k-th call begins
LineEnd(k) ==
    CHOOSE m \in k..(IF k + 3 < Len(log) THEN k + 3 ELSE Len(log)) :
        /\ \A j \in (k + 1)..m : log[j].fn = "Headers.Write" /\ log[j].at # "property"
        /\ m < Len(log) => m = k + 3 \/ ~(log[m + 1].fn = "Headers.Write" /\ log[m + 1].at # "property")

\* Headers.Write has left the line that the k-th call begins, and every
\* write of the line has succeeded
LineWritten(k) ==
    /\ \/ LineEnd(k) < Len(log)
       \/ pc \notin {"headers", "nbhdr", "phdr"}
       \/ hw.at \in {"range", "property"}
    /\ \A j \in k..LineEnd(k) : log[j].ok

\* the bytes of the line that the k-th call begins
Line(k) == Concat([j \in 1..(LineEnd(k) - k + 1) |-> log[k + j - 1].data])

\* The headers.Write of Envelope.Write has returned with no write failed.
TopWritten ==
    /\ root = "Envelope.Write"
    /\ pc \notin {"begin", "headers"}
    /\ \A k \in 1..Len(log) : log[k].by = "Envelope.Write" => log[k].ok

\* the lines of Envelope.Write that begin with name
TopLines(name) ==
    {k \in PropertyCalls : log[k].by = "Envelope.Write" /\ log[k].data = Bytes(name)}

\* C9: a header field without values is written as its name, a colon and
\* CRLF, whenever the writes of its line succeed; Envelope.Write writes one
\* such line for To and one for Cc when the list is empty.
C9_EmptyFieldLine ==
    /\ \A k \in PropertyCalls :
        LET f == FieldAt(k) IN
        (Len(f.values) = 0 /\ LineWritten(k)) => Line(k) = Bytes(f.name) \o <<":", CR, LF>>
    /\ TopWritten =>
        /\ e.To = <<>> => Cardinality(TopLines("To")) = 1
        /\ e.Cc = <<>> => Cardinality(TopLines("Cc")) = 1

\* C9, witness: Envelope.Write has returned nil for an envelope without
\* recipients and without copies.
C9_Witness ==
    /\ pc = "done"
    /\ ret = "nil"
    /\ e.To = <<>>
    /\ e.Cc = <<>>
    /\ \E k \in TopLines("Cc") : Line(k) = <<"Cc", ":", CR, LF>>

\* v1; v2; ...
Joined(values) ==
    Concat([i \in 1..Len(values) |->
                (IF i > 1 THEN <<";", " ">> ELSE <<>>) \o Bytes(values[i])])

\* C10: a header field with values is written as one line: its name, a
\* colon and a space, the values in their order with "; " between them, and
\* CRLF, whenever the writes of its line succeed; Envelope.Write writes one
\* line for each of its seven fields.
C10_ValuesJoinedInOrder ==
    /\ \A k \in PropertyCalls :
        LET f == FieldAt(k) IN
        (Len(f.values) > 0 /\ LineWritten(k)) =>
            Line(k) = Bytes(f.name) \o <<":", " ">> \o Joined(f.values) \o CRLF
    /\ TopWritten => \A n \in 1..Len(TopOrder) : Cardinality(TopLines(TopOrder[n])) = 1

\* C10, witness: Envelope.Write has returned nil for an envelope with two
\* copies, whose Cc line holds both.
C10_Witness ==
    /\ pc = "done"
    /\ ret = "nil"
    /\ Len(e.Cc) = 2
    /\ \E k \in TopLines("Cc") :
        Line(k) = <<"Cc", ":", " ", e.Cc[1], ";", " ", e.Cc[2], CR, LF>>

-----------------------------------------------------------------------------
(* C11 *)

\* a call that Headers.Write makes for Envelope.Write
IsTop(ev) == ev.fn = "Headers.Write" /\ ev.by = "Envelope.Write"

\* the bytes that the stream has taken of the top-level header lines
TopBytes == Concat([k \in 1..Len(log) |-> IF IsTop(log[k]) /\ log[k].ok THEN log[k].data ELSE <<>>])

\* where the lines of s begin, the lines being ended by CRLF
LineStarts(s) == {1} \cup {i + 2 : i \in {j \in Occurrences(CRLF, s) : j + 2 <= Len(s)}}

\* C11: no call is made on the stream or on crypto/rand before the names of
\* the seven top-level fields Date, From, To, Cc, Reply-To, Subject and
\* Mime-Version have been written, each once; Sender is never written as a
\* field name; and when the writes of these lines have succeeded the output
\* starts with exactly seven lines ended by CRLF, one for each of the names.
C11_SevenHeaderLinesFirst ==
    /\ \A k \in 1..Len(log) : ~(IsProperty(log[k]) /\ log[k].data = <<"Sender">>)
    /\ LET tops == {k \in 1..Len(log) : IsTop(log[k])} IN
        /\ \A k \in tops : k <= Cardinality(tops)
        /\ Cardinality(tops) < Len(log) =>
            /\ \A n \in 1..Len(TopOrder) :
                Cardinality({j \in tops : IsTopProperty(log[j]) /\ log[j].data = <<TopOrder[n]>>}) = 1
            /\ Cardinality({j \in tops : IsTopProperty(log[j])}) = Len(TopOrder)
    /\ TopWritten =>
        LET p == TopBytes IN
        /\ SubSeq(Out, 1, Len(p)) = p
        /\ Cardinality(Occurrences(CRLF, p)) = Len(TopOrder)
        /\ SubSeq(p, Len(p) - 1, Len(p)) = CRLF
        /\ \A n \in 1..Len(TopOrder) :
            Cardinality({i \in LineStarts(p) : SubSeq(p, i, i + 1) = <<TopOrder[n], ":">>}) = 1

\* C11, witness: Envelope.Write has returned nil and the stream has taken
\* the seven lines and the declaration of the first boundary after them.
C11_Witness ==
    /\ pc = "done"
    /\ ret = "nil"
    /\ Cardinality(Occurrences(CRLF, TopBytes)) = 7
    /\ SubSeq(Out, Len(TopBytes) + 1, Len(TopBytes) + 1) = <<"Content-Type">>

-----------------------------------------------------------------------------
(* C12 *)

\* the part at work has an encoding that Part.Write copies as it is
Plain == ThePart.Encoding \notin {QuotedPrintable, Base64}

\* the two header lines of the part p, as the specification words them
ContentTypeLine(p, charset) ==
    <<"Content-Type", ":", " ", p.ContentType, ";", " ", "charset=" \o charset>> \o CRLF
TransferEncodingLine(p) ==
    <<"Content-Transfer-Encoding", ":", " ", p.Encoding>> \o CRLF

\* C12: for a part whose encoding is neither quoted-printable nor base64,
\* every write of the body passes on the bytes just read from the source
\* as they are, and when Part.Write has ended well the output is the two
\* header lines, the Content-Transfer-Encoding line holding the encoding as
\* it is, then CRLF, the bytes of the source, and CRLF.
C12_UnencodedVerbatim ==
    Plain =>
        /\ \A k \in 1..Len(log) :
            (log[k].op = "write" /\ log[k].at = "copy") =>
                /\ k > 1
                /\ log[k - 1].op = "read"
                /\ log[k - 1].data = log[k].data
        /\ Succeeded =>
            LET ct == ContentTypeLine(ThePart, e.Charset)
                cte == TransferEncodingLine(ThePart)
                rest == CRLF \o ThePart.Reader \o CRLF
            IN  /\ Out \in {ct \o cte \o rest, cte \o ct \o rest}
                /\ Body(idx) = ThePart.Reader

\* C12, witness: Part.Write has ended well for a part of encoding "UTF-8"
\* whose source holds a bare LF, and the body is that source.
C12_Witness ==
    /\ Succeeded
    /\ ThePart.Encoding = "UTF-8"
    /\ ThePart.Reader = <<"h", LF, "xE9">>
    /\ Body(idx) = ThePart.Reader

-----------------------------------------------------------------------------
(* C13 *)

\* a call of Mark on the alternative boundary
IsAltMark(ev) == ev.fn = "Boundary.Mark" /\ ev.b = "alternative"

\* a call that Part.Write makes, or that Headers.Write makes for it
IsOfPart(ev) == ev.part > 0

\* the calls of Mark on the alternative boundary among the first k calls
AltMarks(k) == {j \in 1..k : IsAltMark(log[j])}

\* the body that Part.Write makes of the source of the part p
ExpectedBody(p) ==
    CASE p.Encoding = QuotedPrintable -> QPRead(p.Reader, FALSE).out
      [] p.Encoding = Base64 -> B64Encode(p.Reader)
      [] OTHER -> p.Reader

\* C13: Envelope.Write takes the parts in the order of the list.  The
\* calls for part i all come before those for part i+1; the first call for
\* part i writes a header name and comes right after the i-th call of Mark
\* on the alternative boundary; the call after that Mark, if there is one,
\* is for part i; the Content-Type of a part carries the charset of the
\* envelope.  When a run has ended with no call failed, there are as many
\* of these Marks as parts, and every part has been written once and whole.
C13_PartsInListOrder ==
    LET calls == SelectSeq(log, IsOfPart) IN
    /\ \A n \in 1..(Len(calls) - 1) : calls[n].part <= calls[n + 1].part
    /\ \A k \in 1..Len(log) :
        /\ (IsOfPart(log[k]) /\ (k = 1 \/ log[k - 1].part # log[k].part)) =>
            /\ k > 1
            /\ IsAltMark(log[k - 1])
            /\ Cardinality(AltMarks(k)) = log[k].part
            /\ IsProperty(log[k])
        /\ (IsAltMark(log[k]) /\ k < Len(log)) =>
            /\ log[k + 1].part = Cardinality(AltMarks(k))
            /\ log[k + 1].by = "Part.Write"
        /\ (IsOfPart(log[k]) /\ log[k].at = "values" /\ log[k - 2].data = <<"Content-Type">>) =>
            log[k].data = <<e.Parts[log[k].part].ContentType, ";", " ", "charset=" \o e.Charset>>
    /\ (pc = "done" /\ failures = 0) =>
        /\ Cardinality(AltMarks(Len(log))) = Len(e.Parts)
        /\ \A i \in 1..Len(e.Parts) :
            /\ Cardinality({k \in 1..Len(log) : log[k].part = i /\ log[k].at = "trail"}) = 1
            /\ Cardinality({k \in 1..Len(log) :
                    log[k].part = i /\ log[k].data = <<"Content-Type">>}) = 1
            /\ Body(i) = ExpectedBody(e.Parts[i])

\* C13, witness: a run for an envelope of two parts has ended with no call
\* failed, with two Marks on the alternative boundary and both bodies
\* written.
C13_Witness ==
    /\ pc = "done"
    /\ failures = 0
    /\ Len(e.Parts) = 2
    /\ Cardinality(AltMarks(Len(log))) = 2
    /\ Body(1) = ExpectedBody(e.Parts[1])
    /\ Body(2) = ExpectedBody(e.Parts[2])

-----------------------------------------------------------------------------
(* C14 *)

\* the k-th call is a read of the source of a part that fails
IsFailedRead(k) == log[k].op = "read" /\ ~log[k].ok

\* C14, as stated: when a read of the source of part i has failed, no call
\* for a later part, no Mark, no read of a source and no Boundary.End
\* follows it, and Envelope.Write returns an error.
C14_ReadFailureAborts ==
    \A k \in 1..Len(log) :
        IsFailedRead(k) =>
            /\ \A j \in (k + 1)..Len(log) :
                /\ log[j].part <= log[k].part
                /\ log[j].fn \notin {"Boundary.Mark", "Boundary.End"}
                /\ log[j].op # "read"
            /\ pc = "done" => ret = "err"

\* C14 of the revision that returns errors
C14_ReadFailureAbortsChecked == Checked => C14_ReadFailureAborts

-----------------------------------------------------------------------------
(* C15 *)

\* where s holds an LF that no CR precedes
BareLFs(s) == {i \in 1..Len(s) : s[i] = LF /\ (i = 1 \/ s[i - 1] # CR)}

\* the call writes bytes of the source of a part that is not base64
IsCopied(ev) ==
    /\ ev.fn = "Part.Write"
    /\ ev.at = "copy"
    /\ e.Parts[ev.part].Encoding # Base64

\* no part that is not base64 has an LF in its source
NoLFInSources ==
    \A i \in 1..Len(e.Parts) :
        e.Parts[i].Encoding # Base64 => \A n \in 1..Len(e.Parts[i].Reader) : e.Parts[i].Reader[n] # LF

-----------------------------------------------------------------------------
(* C16 *)

\* the value of a character of the base64 alphabet
B64Index(c) == CHOOSE n \in 0..63 : B64(n) = c

RECURSIVE B64Decode(_)
\* a standard base64 decoder: four characters to three bytes, one or two
\* bytes for a last group that is padded; err for text that does not end
\* with a whole group
B64Decode(s) ==
    IF Len(s) = 0 THEN [out |-> <<>>, err |-> FALSE]
    ELSE IF Len(s) < 4 THEN [out |-> <<>>, err |-> TRUE]
    ELSE LET pad == IF s[3] = "=" THEN 2 ELSE IF s[4] = "=" THEN 1 ELSE 0
             v == B64Index(s[1]) * 262144 + B64Index(s[2]) * 4096
                  + (IF pad < 2 THEN B64Index(s[3]) * 64 ELSE 0)
                  + (IF pad < 1 THEN B64Index(s[4]) ELSE 0)
             bytes == <<ByteChr(v \div 65536)>>
                      \o (IF pad < 2 THEN <<ByteChr((v \div 256) % 256)>> ELSE <<>>)
                      \o (IF pad < 1 THEN <<ByteChr(v % 256)>> ELSE <<>>)
             rest == B64Decode(SubSeq(s, 5, Len(s)))
         IN  IF pad > 0 /\ Len(s) > 4 THEN [out |-> bytes, err |-> TRUE]
             ELSE [out |-> bytes \o rest.out, err |-> rest.err]

\* the reads of the source of the part at work that have delivered bytes
Chunks == {k \in 1..Len(log) : log[k].op = "read" /\ log[k].data # <<>>}

\* C16: when Part.Write has written a base64 part well, a base64 decoder
\* makes the bytes of the source of the body, whatever the length of the
\* source and the chunks it was read in; the bytes the encoder holds over
\* are written, padded, by encoder.Close() before the trailing CRLF.
C16_Base64RoundTrip ==
    (Succeeded /\ ThePart.Encoding = Base64) =>
        LET decoded == B64Decode(Body(idx)) IN
        /\ ~decoded.err
        /\ decoded.out = ThePart.Reader
        /\ Len(Body(idx)) = 4 * ((Len(ThePart.Reader) + 2) \div 3)
        /\ Len(ThePart.Reader) % 3 # 0 =>
            \E k \in 1..Len(log) :
                /\ log[k].at = "close"
                /\ log[k].data[4] = "="
                /\ \A j \in 1..Len(log) : log[j].at = "trail" => k < j

\* C16, witness: Part.Write has written well a base64 part whose source of
\* two bytes was read in two chunks, and the body ends with padding.
C16_Witness ==
    /\ Succeeded
    /\ ThePart.Encoding = Base64
    /\ Len(ThePart.Reader) = 2
    /\ Cardinality(Chunks) = 2
    /\ B64Decode(Body(idx)).out = ThePart.Reader
    /\ Body(idx)[4] = "="

-----------------------------------------------------------------------------
(* C17: a Boundary in the hands of a caller of the package *)

\* NewBoundary has returned a Boundary to the caller
InitBoundary ==
    /\ rev \in {"main", "part"}
    /\ e = NewEnvelope(SomeTime, "john@example.com", <<>>, <<>>, <<>>)
    /\ root = "Boundary"
    /\ pc = "handle"
    /\ cur \in Boundaries
    /\ idx = 1
    /\ hw = NoHeaders
    /\ ids = [NoIds EXCEPT ![cur] = Tokens[1]]
    /\ enc = NoEncoder
    /\ rd = 0
    /\ log = <<>>
    /\ failures = 0
    /\ ret = "running"
    /\ drawn = 1
    /\ other = NoCall
    /\ reader = NoReader

\* what a method of Boundary returns for the result ok of its Write
Result(ok) == IF Checked THEN (IF ok THEN "nil" ELSE "err") ELSE "none"

\* the caller calls b.Mark()
BoundaryMark ==
    /\ pc = "handle"
    /\ Len(log) < MaxCalls
    /\ \E ok \in Outcomes :
        /\ Calls(<<Event("write", "Boundary.Mark", "", "", cur, 0, MarkBytes(ids[cur]), ok)>>)
        /\ ret' = Result(ok)
    /\ UNCHANGED <<rev, e, pc, cur, idx, hw, ids, enc, rd, root, drawn, other, reader>>

\* the caller calls b.End()
BoundaryEnd ==
    /\ pc = "handle"
    /\ Len(log) < MaxCalls
    /\ \E ok \in Outcomes :
        /\ Calls(<<Event("write", "Boundary.End", "", "", cur, 0, EndBytes(ids[cur]), ok)>>)
        /\ ret' = Result(ok)
    /\ UNCHANGED <<rev, e, pc, cur, idx, hw, ids, enc, rd, root, drawn, other, reader>>

NextBoundary ==
    \/ BoundaryMark
    \/ BoundaryEnd

SpecBoundary == InitBoundary /\ [][NextBoundary]_vars

\* C17, as stated: once End has been called on a Boundary, a later Mark or
\* End on it makes no Write on the stream and returns an error.
C17_NoDelimiterAfterEnd ==
    \A j, k \in 1..Len(log) :
        (j < k /\ IsEnd(log[j])) =>
            /\ log[k].op # "write"
            /\ (Checked /\ k = Len(log)) => ret = "err"

-----------------------------------------------------------------------------
(* C20 *)

\* the Date line, when its writes have succeeded, holds the Date of the
\* envelope in the layout RFC1123Z
DateLineShowsDate ==
    \A k \in TopLines("Date") :
        LineWritten(k) => Line(k) = <<"Date", ":", " ", RFC1123Z(e.Date)>> \o CRLF

\* a step changes the envelope only by putting the current time in place
\* of a zero Date
FrameStep == e' # e => (IsZero(e.Date) /\ e' = [e EXCEPT !.Date = Now])

\* C20: Envelope.Write changes the envelope only by setting a zero Date to
\* the current time; every other field, and a Date that is not zero, stay
\* as they are on every run, and the Date line holds the Date of the
\* envelope.
C20_OnlyZeroDateReplaced ==
    /\ [](DateLineShowsDate /\ (pc # "begin" => ~IsZero(e.Date)))
    /\ [][FrameStep]_vars

\* C20, witness: Envelope.Write has returned for an envelope whose Date
\* was zero, and the Date line holds the current time.
C20_Witness ==
    /\ pc = "done"
    /\ e.Date = Now
    /\ \E k \in TopLines("Date") :
        LineWritten(k) /\ Line(k) = <<"Date", ":", " ", RFC1123Z(Now)>> \o CRLF

-----------------------------------------------------------------------------
(* C19: Envelope.Write on the write end of an io.Pipe, as the tests call it *)

\* reader, writer := io.Pipe(); go envelope.Write(writer)
InitPipe ==
    /\ rev \in {"main", "part"}
    /\ e \in Envelopes
    /\ root = "Envelope.Write"
    /\ pc = "begin"
    /\ cur = "mixed"
    /\ idx = 1
    /\ hw = NoHeaders
    /\ ids = NoIds
    /\ enc = NoEncoder
    /\ rd = 0
    /\ log = <<>>
    /\ failures = 0
    /\ ret = "running"
    /\ drawn = 0
    /\ other = NoCall
    /\ reader = [got |-> 0, eof |-> FALSE, on |-> TRUE]

\* the writes the pipe has taken so far
Delivered == Cardinality({k \in 1..Len(log) : log[k].op = "write" /\ log[k].ok})

\* the write end has been closed
Closed == \E k \in 1..Len(log) : log[k].op = "close"

\* PipeWriter.Write returns when the reader has taken all it was given; no
\* Write and no Close of a pipe fails while its read end is open.
PipeWrite ==
    /\ reader.got = Delivered
    /\ Next
    /\ \A k \in (Len(log) + 1)..Len(log') : log'[k].op \in {"write", "close"} => log'[k].ok

\* reader.Read(buffer) takes what a Write has given
ReaderRead ==
    /\ reader.on
    /\ ~reader.eof
    /\ reader.got < Delivered
    /\ reader' = [reader EXCEPT !.got = @ + 1]
    /\ UNCHANGED <<rev, e, pc, cur, idx, hw, ids, enc, rd, log, failures, root, ret, drawn, other>>

\* reader.Read(buffer) returns io.EOF: the write end is closed and nothing
\* is left to read
ReaderEOF ==
    /\ reader.on
    /\ ~reader.eof
    /\ reader.got = Delivered
    /\ Closed
    /\ reader' = [reader EXCEPT !.eof = TRUE]
    /\ UNCHANGED <<rev, e, pc, cur, idx, hw, ids, enc, rd, log, failures, root, ret, drawn, other>>

NextPipe ==
    \/ PipeWrite
    \/ ReaderRead
    \/ ReaderEOF

\* Both goroutines run whenever they can.
SpecPipe ==
    /\ InitPipe
    /\ [][NextPipe]_vars
    /\ WF_vars(PipeWrite)
    /\ WF_vars(ReaderRead \/ ReaderEOF)

\* C19, as stated: Envelope.Write returns in the end, and the reader sees
\* the end of the stream in the end, having taken every write.
C19_ReaderSeesEndOfStream ==
    /\ <>(pc = "done")
    /\ <>(reader.eof /\ reader.got = Delivered)

\* C19 of the runs on which no read of a source and no read of crypto/rand
\* fails
C19_ReaderSeesEndOfStreamUnfailing ==
    <>(failures > 0 \/ (pc = "done" /\ reader.eof /\ reader.got = Delivered))

-----------------------------------------------------------------------------
(* C18: two calls of Envelope.Write in two goroutines *)

\* the envelopes of the two calls
EnvelopeOne ==
    NewEnvelope(SomeTime, "john@example.com", <<"bil@example.com", "dan@example.com">>, <<>>,
                <<>>)
EnvelopeTwo ==
    NewEnvelope(ZeroTime, "", <<"eve@example.com">>, <<"fay@example.com">>, <<Parts[1]>>)

\* the second call before its first step, waiting to run
Parked ==
    [id |-> 2, switches |-> 0, e |-> EnvelopeTwo, pc |-> "begin", cur |-> "mixed", idx |-> 1,
     hw |-> NoHeaders, ids |-> NoIds, enc |-> NoEncoder, rd |-> 0, log |-> <<>>,
     ret |-> "running"]

\* there is no call i: the other call runs alone
Absent(i) == [id |-> i, pc |-> "none"]

\* mail.Write(writer) of src/unnamed/part_000 is called, alone or with a
\* second call in another goroutine, on streams and sources that do not fail
InitTwo ==
    /\ rev = "part"
    /\ \/ e = EnvelopeOne /\ other \in {Absent(2), Parked}
       \/ e = EnvelopeTwo /\ other = Absent(1)
    /\ root = "Envelope.Write"
    /\ pc = "begin"
    /\ cur = "mixed"
    /\ idx = 1
    /\ hw = NoHeaders
    /\ ids = NoIds
    /\ enc = NoEncoder
    /\ rd = 0
    /\ log = <<>>
    /\ failures = 0
    /\ ret = "running"
    /\ drawn = 0
    /\ reader = NoReader

\* the call that runs takes a step of Envelope.Write, and no call it makes
\* fails
Step ==
    /\ \/ Begin
       \/ HeadersWrite
       \/ NewBoundary
       \/ NewBoundaryCRLF
       \/ Mark
       \/ End
       \/ Close
       \/ PartCRLF
       \/ PartBodyCopy
       \/ PartBodyEnd
       \/ PartClose
       \/ PartTrail
    /\ \A k \in (Len(log) + 1)..Len(log') : log'[k].ok

\* Switch with the boundaries kept by the goroutine that comes on, as if
\* the package held them
SwitchSharedIds ==
    /\ other.pc \notin {"none", "done"}
    /\ other.switches < MaxSwitches \/ pc = "done"
    /\ e' = other.e
    /\ pc' = other.pc
    /\ cur' = other.cur
    /\ idx' = other.idx
    /\ hw' = other.hw
    /\ ids' = ids
    /\ enc' = other.enc
    /\ rd' = other.rd
    /\ log' = other.log
    /\ ret' = other.ret
    /\ other' = [id |-> 3 - other.id,
                 switches |-> IF pc = "done" THEN other.switches ELSE other.switches + 1,
                 e |-> e, pc |-> pc, cur |-> cur, idx |-> idx, hw |-> hw, ids |-> other.ids,
                 enc |-> enc, rd |-> rd, log |-> log, ret |-> ret]
    /\ UNCHANGED <<rev, failures, root, drawn, reader>>

\* the scheduler takes the goroutine that runs off the processor and puts
\* the other one on; everything a call works with is its own, crypto/rand
\* is shared
Switch ==
    /\ other.pc \notin {"none", "done"}
    /\ other.switches < MaxSwitches \/ pc = "done"
    /\ e' = other.e
    /\ pc' = other.pc
    /\ cur' = other.cur
    /\ idx' = other.idx
    /\ hw' = other.hw
    /\ ids' = other.ids
    /\ enc' = other.enc
    /\ rd' = other.rd
    /\ log' = other.log
    /\ ret' = other.ret
    /\ other' = [id |-> 3 - other.id,
                 switches |-> IF pc = "done" THEN other.switches ELSE other.switches + 1,
                 e |-> e, pc |-> pc, cur |-> cur, idx |-> idx, hw |-> hw, ids |-> ids,
                 enc |-> enc, rd |-> rd, log |-> log, ret |-> ret]
    /\ UNCHANGED <<rev, failures, root, drawn, reader>>

NextTwo ==
    \/ Step
    \/ Switch

SpecTwo == InitTwo /\ [][NextTwo]_vars


\* the calls there are: the one that runs and the one that waits
TheCalls ==
    {[id |-> 3 - other.id, e |-> e, pc |-> pc, ids |-> ids, log |-> log, ret |-> ret]}
    \cup (IF other.pc = "none" THEN {}
          ELSE {[id |-> other.id, e |-> other.e, pc |-> other.pc, ids |-> other.ids,
                 log |-> other.log, ret |-> other.ret]})

\* the envelope the call i is given
StartEnvelope(i) == IF i = 1 THEN EnvelopeOne ELSE EnvelopeTwo

\* the bytes a stream has taken from the calls lg
OutOf(lg) ==
    Concat([k \in 1..Len(lg) |-> IF lg[k].op = "write" /\ lg[k].ok THEN lg[k].data ELSE <<>>])

\* the names of the header fields that lg shows written for the caller by
\* and the part i, in the order of writing
NamesOf(lg, by, i) ==
    LET Named(ev) == IsProperty(ev) /\ ev.by = by /\ ev.part = i
        calls == SelectSeq(lg, Named)
    IN  [n \in 1..Len(calls) |-> calls[n].data[1]]

\* the line of the header field f
FieldLine(f) ==
    <<f.name>> \o (IF Len(f.values) = 0 THEN <<":">> ELSE <<":", " ">> \o Joined(f.values)) \o CRLF

\* the lines of the fields of h, in the order names
HeaderBlock(h, names) ==
    Concat([n \in 1..Len(names) |->
                FieldLine(h[CHOOSE i \in 1..Len(h) : h[i].name = names[n]])])

\* the message of the envelope env with the boundaries idz, its header
\* lines in the order that lg shows: what Envelope.Write writes when it
\* runs alone
Message(env, idz, lg) ==
    LET Open(b) == FieldLine(BoundaryHeaders(Mime(b), idz[b])[1]) \o CRLF
        ThePartOf(i) ==
            MarkBytes(idz["alternative"])
            \o HeaderBlock(PartHeaders(env.Parts[i], env.Charset), NamesOf(lg, "Part.Write", i))
            \o CRLF \o ExpectedBody(env.Parts[i]) \o CRLF
    IN  HeaderBlock(EnvelopeHeaders(env), NamesOf(lg, "Envelope.Write", 0))
        \o Open("mixed") \o MarkBytes(idz["mixed"])
        \o Open("related") \o MarkBytes(idz["related"])
        \o Open("alternative")
        \o Concat([i \in 1..Len(env.Parts) |-> ThePartOf(i)])
        \o EndBytes(idz["alternative"]) \o EndBytes(idz["related"]) \o EndBytes(idz["mixed"])

====
